---------------------------- MODULE Spec2Model ----------------------------
(***************************************************************************)
(* Model of src/components/proposals/ProposalTimeline.tsx: the two         *)
(* react-query fetches of the ProposalTimeline component, the useMemo that *)
(* joins them, and the 36-month cost aggregation it computes               *)
(* (generateMonthLabels, isCircuitActive, the months.map callback).        *)
(*                                                                         *)
(* Representation.                                                         *)
(*   - A JavaScript string is a sequence of one-character strings, so that *)
(*     String.prototype.replace and template concatenation are computed.   *)
(*   - A Date is its time value, counted in whole hours since              *)
(*     1970-01-01T00:00Z (JavaScript counts milliseconds; an hour is the   *)
(*     resolution of this model).  Local time is UTC plus the fixed offset *)
(*     tz of the runtime (no daylight saving changes).                     *)
(*   - contract_start_date / contract_end_date are date-only strings       *)
(*     "YYYY-MM-DD", written <<year, month 1..12, day>>, or Null.          *)
(*   - monthData is a record; a property name computed as a JavaScript     *)
(*     string denotes the record field PropertyName gives it, and `in` is  *)
(*     membership of the record's DOMAIN.                                  *)
(***************************************************************************)
EXTENDS Integers, Sequences, FiniteSets

VARIABLES
    locations,                \* props.locations.length
    tz,                       \* the runtime's offset from UTC, in hours
    activeCircuitsQueries,    \* useQuery result: [status, data]
    proposedCircuitsQueries,  \* useQuery result: [status, data]
    anchor,                   \* <<year, month 0..11, day, hour>>: local fields of the new Date() useMemo read
    startDate,                \* useMemo's local startDate (time value), NoTime if not run
    monthDates,               \* useMemo's local monthDate of each index, <<>> if not run
    data                      \* the value of useMemo: the chart's data series

vars == <<locations, tz, activeCircuitsQueries, proposedCircuitsQueries,
          anchor, startDate, monthDates, data>>

\* An optional value is <<>> when absent (null, undefined) and otherwise present:
\* a date string is <<y, m, d>>, a query's data is <<array>>.
Null == <<>>
Undefined == <<>>
Some(x) == <<x>>
\* the time value of "no Date"
NoTime == 0 - 1

---------------------------------------------------------------------------
(* Strings *)

Letters ==
    {"a","b","c","d","e","f","g","h","i","j","k","l","m",
     "n","o","p","q","r","s","t","u","v","w","x","y","z",
     "A","B","C","D","E","F","G","H","I","J","K","L","M",
     "N","O","P","Q","R","S","T","U","V","W","X","Y","Z"}

IsLetter(c) == c \in Letters

\* type.replace(/[^a-zA-Z]/g, '')
StripNonLetters(s) == SelectSeq(s, IsLetter)

Digits == <<"0","1","2","3","4","5","6","7","8","9">>
Digit(n) == Digits[n + 1]

RECURSIVE NumberToString(_)
\* Number.prototype.toString() of a non-negative integer
NumberToString(n) ==
    IF n < 10 THEN <<Digit(n)>> ELSE NumberToString(n \div 10) \o <<Digit(n % 10)>>

EmptyString == <<>>

\* property names of MonthData
KeyMonth == <<"m","o","n","t","h">>
ExistingPrefix == <<"e","x","i","s","t","i","n","g">>
ProposedPrefix == <<"p","r","o","p","o","s","e","d">>
NameMpls == <<"M","p","l","s">>
NameDia == <<"D","i","a">>
NameBroadband == <<"B","r","o","a","d","b","a","n","d">>
NameLte == <<"L","t","e">>
existingMpls == ExistingPrefix \o NameMpls
existingDia == ExistingPrefix \o NameDia
existingBroadband == ExistingPrefix \o NameBroadband
existingLte == ExistingPrefix \o NameLte
proposedMpls == ProposedPrefix \o NameMpls
proposedDia == ProposedPrefix \o NameDia
proposedBroadband == ProposedPrefix \o NameBroadband
proposedLte == ProposedPrefix \o NameLte

NumericFields ==
    {existingMpls, existingDia, existingBroadband, existingLte,
     proposedMpls, proposedDia, proposedBroadband, proposedLte}

---------------------------------------------------------------------------
(* Date: the time-value arithmetic of ECMAScript, in hours *)

IsLeap(y) == (y % 4 = 0 /\ y % 100 # 0) \/ y % 400 = 0

\* day number of January 1st of year y (ECMAScript DayFromYear)
DayFromYear(y) ==
    365 * (y - 1970) + ((y - 1969) \div 4) - ((y - 1901) \div 100) + ((y - 1601) \div 400)

CumulativeDays == <<0, 31, 59, 90, 120, 151, 181, 212, 243, 273, 304, 334, 365>>

\* days of year y before the first of month m (0..11); m = 12 is the year's end
MonthStart(y, m) == CumulativeDays[m + 1] + (IF m >= 2 /\ IsLeap(y) THEN 1 ELSE 0)

\* ECMAScript MakeDay: month and date may lie outside their ranges and carry over
MakeDay(year, month, date) ==
    LET ym == year + (month \div 12)
        mn == month % 12
    IN  DayFromYear(ym) + MonthStart(ym, mn) + date - 1

Day(t) == t \div 24
TimeWithinDay(t) == t % 24
MakeDate(day, time) == day * 24 + time

\* <<year, month 0..11, date 1..31>> of day number z >= 0: the civil calendar,
\* counted in 400-year eras of 146097 days with the year starting in March
CivilFromDay(z) ==
    LET doe == (z + 719468) % 146097
        era == (z + 719468) \div 146097
        yoe == (doe - (doe \div 1460) + (doe \div 36524) - (doe \div 146096)) \div 365
        doy == doe - (365 * yoe + (yoe \div 4) - (yoe \div 100))
        mp == (5 * doy + 2) \div 153
        m == IF mp < 10 THEN mp + 2 ELSE mp - 10
    IN  <<yoe + era * 400 + (IF m <= 1 THEN 1 ELSE 0), m, doy - ((153 * mp + 2) \div 5) + 1>>

\* ECMAScript YearFromTime, MonthFromTime (0..11), DateFromTime (1..31)
YearFromTime(t) == CivilFromDay(Day(t))[1]
MonthFromTime(t) == CivilFromDay(Day(t))[2]
DateFromTime(t) == CivilFromDay(Day(t))[3]

LocalTime(t, offset) == t + offset
UTC(t, offset) == t - offset

\* Date.prototype.getMonth / getFullYear / getDate
getMonth(t, offset) == MonthFromTime(LocalTime(t, offset))
getFullYear(t, offset) == YearFromTime(LocalTime(t, offset))
getDate(t, offset) == DateFromTime(LocalTime(t, offset))

\* Date.prototype.setMonth(month): the new time value
setMonth(t, month, offset) ==
    LET lt == LocalTime(t, offset)
        c == CivilFromDay(Day(lt))
    IN  UTC(MakeDate(MakeDay(c[1], month, c[3]), TimeWithinDay(lt)), offset)

\* new Date("YYYY-MM-DD"): a date-only string is midnight UTC
ParseDate(s) == MakeDate(MakeDay(s[1], s[2] - 1, s[3]), 0)

---------------------------------------------------------------------------
(* The pure functions of the component *)

\* the horizon: for (let i = 0; i < 36; i++)
NumMonths == 36

\* generateMonthLabels labelling every January with the start date's year
generateMonthLabelsStartYear(start, offset) ==
    [k \in 1..NumMonths |->
        LET date == setMonth(start, getMonth(start, offset) + (k - 1), offset)
        IN  IF getMonth(date, offset) = 0
            THEN NumberToString(getFullYear(start, offset))
            ELSE EmptyString]

\* generateMonthLabels(startDate): element i+1 is the label of loop index i
generateMonthLabels(start, offset) ==
    [k \in 1..NumMonths |->
        LET date == setMonth(start, getMonth(start, offset) + (k - 1), offset)
        IN  IF getMonth(date, offset) = 0
            THEN NumberToString(getFullYear(date, offset))
            ELSE EmptyString]

\* isCircuitActive without its first line: new Date(null) is the epoch
isCircuitActiveNullStart(circuit, monthDate) ==
    LET start == IF circuit.contract_start_date = Null
                 THEN 0
                 ELSE ParseDate(circuit.contract_start_date)
    IN  IF circuit.contract_end_date = Null
        THEN start <= monthDate
        ELSE start <= monthDate /\ monthDate <= ParseDate(circuit.contract_end_date)

\* isCircuitActive(circuit, monthDate)
isCircuitActive(circuit, monthDate) ==
    IF circuit.contract_start_date = Null
    THEN FALSE
    ELSE IF circuit.contract_end_date = Null
         THEN ParseDate(circuit.contract_start_date) <= monthDate
         ELSE /\ ParseDate(circuit.contract_start_date) <= monthDate
              /\ monthDate <= ParseDate(circuit.contract_end_date)

\* monthDate.setMonth((monthDate.getMonth() + index) % 12): the year never advances
MonthDateAtNoCarry(start, index, offset) ==
    setMonth(start, (getMonth(start, offset) + index) % 12, offset)

\* const monthDate = new Date(startDate); monthDate.setMonth(monthDate.getMonth() + index)
MonthDateAt(start, index, offset) ==
    setMonth(start, getMonth(start, offset) + index, offset)

\* the object literal monthData starts from
InitialMonthData(month) ==
    [month |-> month,
     existingMpls |-> 0, existingDia |-> 0, existingBroadband |-> 0, existingLte |-> 0,
     proposedMpls |-> 0, proposedDia |-> 0, proposedBroadband |-> 0, proposedLte |-> 0]

Uppercase ==
    <<"A","B","C","D","E","F","G","H","I","J","K","L","M",
      "N","O","P","Q","R","S","T","U","V","W","X","Y","Z">>
Lowercase ==
    <<"a","b","c","d","e","f","g","h","i","j","k","l","m",
      "n","o","p","q","r","s","t","u","v","w","x","y","z">>
ToLower(c) ==
    IF \E i \in 1..26 : Uppercase[i] = c
    THEN Lowercase[CHOOSE i \in 1..26 : Uppercase[i] = c]
    ELSE c

\* the key built from the type with every letter after the first lowercased
BucketKeyCapitalized(prefix, circuit) ==
    LET t == StripNonLetters(circuit.type)
    IN  prefix \o [i \in 1..Len(t) |-> IF i = 1 THEN t[i] ELSE ToLower(t[i])]

\* `existing${circuit.type.replace(/[^a-zA-Z]/g, '')}`, resp. `proposed${...}`
BucketKey(prefix, circuit) == prefix \o StripNonLetters(circuit.type)

\* the record field a computed property name denotes; a name that is no property
\* of MonthData (nor of Object.prototype, whose names start with neither prefix)
\* denotes none
PropertyName(key) ==
    CASE key = KeyMonth -> "month"
      [] key = existingMpls -> "existingMpls"
      [] key = existingDia -> "existingDia"
      [] key = existingBroadband -> "existingBroadband"
      [] key = existingLte -> "existingLte"
      [] key = proposedMpls -> "proposedMpls"
      [] key = proposedDia -> "proposedDia"
      [] key = proposedBroadband -> "proposedBroadband"
      [] key = proposedLte -> "proposedLte"
      [] OTHER -> "(no property)"

\* the body of one forEach callback
AddCircuit(monthData, prefix, circuit, monthDate) ==
    IF isCircuitActive(circuit, monthDate)
    THEN LET key == PropertyName(BucketKey(prefix, circuit))
         IN  IF key \in DOMAIN monthData
             THEN [monthData EXCEPT ![key] = @ + circuit.monthlycost]
             ELSE monthData
    ELSE monthData

RECURSIVE ForEach(_, _, _, _, _)
\* circuits.forEach(...) from element k on
ForEach(monthData, prefix, circuits, k, monthDate) ==
    IF k > Len(circuits)
    THEN monthData
    ELSE ForEach(AddCircuit(monthData, prefix, circuits[k], monthDate),
                 prefix, circuits, k + 1, monthDate)

\* the second forEach building its key with the first one's prefix
ProposedKeyPrefixCopied == ExistingPrefix

\* the prefix the second forEach (proposed circuits) builds its key with
ProposedKeyPrefix == ProposedPrefix

\* the months.map callback: the bucket of one index
MonthBucket(month, index, active, proposed, start, offset) ==
    LET monthDate == MonthDateAt(start, index, offset)
        afterActive == ForEach(InitialMonthData(month), ExistingPrefix, active, 1, monthDate)
    IN  ForEach(afterActive, ProposedKeyPrefix, proposed, 1, monthDate)

\* months.map(...) over generateMonthLabels(startDate)
Aggregate(active, proposed, start, offset) ==
    LET months == generateMonthLabels(start, offset)
    IN  [k \in 1..Len(months) |-> MonthBucket(months[k], k - 1, active, proposed, start, offset)]

\* the monthDate of every index the map callback computes
MonthDatesOf(start, offset) == [k \in 1..NumMonths |-> MonthDateAt(start, k - 1, offset)]

\* if (!activeCircuitsQueries.data || !proposedCircuitsQueries.data) return [];
\* an array, even an empty one, is truthy
MemoSkips(aq, pq) == aq.data = Undefined \/ pq.data = Undefined

\* new Date() at local civil time a = <<year, month, day, hour>>
TimeOf(a, offset) == UTC(MakeDate(MakeDay(a[1], a[2], a[3]), a[4]), offset)

---------------------------------------------------------------------------
(* The component: two queries and the memo that joins them *)

Pending == [status |-> "pending", data |-> Undefined]
Success(list) == [status |-> "success", data |-> Some(list)]
Failed == [status |-> "error", data |-> Undefined]

\* enabled: locations.length > 0
QueriesEnabled == locations > 0

\* the guard returning [] only when neither query has data, a missing list read as []
MemoValueNoJoin(aq, pq, start, offset) ==
    IF aq.data = Undefined /\ pq.data = Undefined
    THEN <<>>
    ELSE Aggregate(IF aq.data = Undefined THEN <<>> ELSE aq.data[1],
                   IF pq.data = Undefined THEN <<>> ELSE pq.data[1], start, offset)

\* the value the useMemo callback returns at time value start
MemoValue(aq, pq, start, offset) ==
    IF MemoSkips(aq, pq)
    THEN <<>>
    ELSE Aggregate(aq.data[1], pq.data[1], start, offset)

\* useMemo(..., [activeCircuitsQueries.data, proposedCircuitsQueries.data]) re-run
\* with the queries aq, pq; a is what new Date() reads if the callback gets there
Memo(aq, pq, a) ==
    /\ data' = MemoValue(aq, pq, TimeOf(a, tz), tz)
    /\ IF MemoSkips(aq, pq)
       THEN /\ anchor' = <<>>
            /\ startDate' = NoTime
            /\ monthDates' = <<>>
       ELSE /\ anchor' = a
            /\ startDate' = TimeOf(a, tz)
            /\ monthDates' = MonthDatesOf(TimeOf(a, tz), tz)

\* the active-circuits queryFn resolves with results.flat()
ActiveResolve(Lists, Nows) ==
    /\ QueriesEnabled
    /\ activeCircuitsQueries.status = "pending"
    /\ \E list \in Lists, a \in Nows :
         /\ activeCircuitsQueries' = Success(list)
         /\ Memo(Success(list), proposedCircuitsQueries, a)
    /\ UNCHANGED <<locations, tz, proposedCircuitsQueries>>

\* a getActiveCircuits call rejects: the query ends in error without data
ActiveReject(Nows) ==
    /\ QueriesEnabled
    /\ activeCircuitsQueries.status = "pending"
    /\ activeCircuitsQueries' = Failed
    /\ \E a \in Nows : Memo(Failed, proposedCircuitsQueries, a)
    /\ UNCHANGED <<locations, tz, proposedCircuitsQueries>>

\* the proposed-circuits queryFn resolves with results.flat()
ProposedResolve(Lists, Nows) ==
    /\ QueriesEnabled
    /\ proposedCircuitsQueries.status = "pending"
    /\ \E list \in Lists, a \in Nows :
         /\ proposedCircuitsQueries' = Success(list)
         /\ Memo(activeCircuitsQueries, Success(list), a)
    /\ UNCHANGED <<locations, tz, activeCircuitsQueries>>

\* a getProposedCircuits call rejects
ProposedReject(Nows) ==
    /\ QueriesEnabled
    /\ proposedCircuitsQueries.status = "pending"
    /\ proposedCircuitsQueries' = Failed
    /\ \E a \in Nows : Memo(activeCircuitsQueries, Failed, a)
    /\ UNCHANGED <<locations, tz, activeCircuitsQueries>>

\* the first render: both queries pending, the memo returns []
Mounted(LocationCounts, Offsets) ==
    /\ locations \in LocationCounts
    /\ tz \in Offsets
    /\ activeCircuitsQueries = Pending
    /\ proposedCircuitsQueries = Pending
    /\ anchor = <<>>
    /\ startDate = NoTime
    /\ monthDates = <<>>
    /\ data = <<>>

---------------------------------------------------------------------------
(* Inputs: what the fetches return and when the memo runs *)

Circuit(type, cost, start, end) ==
    [type |-> type, monthlycost |-> cost,
     contract_start_date |-> start, contract_end_date |-> end]

TypeMPLS == <<"M","P","L","S">>
TypeDIA == <<"D","I","A">>
TypeBroadband == <<"B","r","o","a","d","b","a","n","d">>
TypeLTE == <<"L","T","E">>
TypeLte == <<"L","t","e">>
TypeBroadHyphen == <<"B","r","o","a","d","-","b","a","n","d">>
TypeDedicated ==
    <<"D","e","d","i","c","a","t","e","d"," ","I","n","t","e","r","n","e","t"," ",
      "A","c","c","e","s","s">>

\* all sequences over S of length at most n
SeqsUpTo(S, n) == UNION {[1..k -> S] : k \in 0..n}

\* the runtime's time zones: west of, at, and east of UTC
TimeZones == {0 - 5, 0, 10}
LocationCounts == {0, 1}

\* the longest list a fetch returns
MaxItems == 2

ExistingUniverse ==
    {Circuit(TypeBroadband, 100, <<2024, 1, 15>>, Null),
     Circuit(TypeMPLS, 100, <<2024, 1, 15>>, <<2024, 3, 15>>),
     Circuit(TypeLte, 40, Null, <<2025, 1, 1>>),
     Circuit(TypeBroadHyphen, 70, <<2024, 6, 15>>, <<2025, 6, 15>>)}

ProposedUniverse ==
    {Circuit(TypeBroadband, 80, <<2024, 4, 1>>, Null),
     Circuit(TypeLte, 60, <<2024, 2, 1>>, <<2026, 2, 1>>)}

ExistingLists == SeqsUpTo(ExistingUniverse, MaxItems)
ProposedLists == SeqsUpTo(ProposedUniverse, MaxItems)

\* instants at which the memo runs: a mid-month morning, a month's last midnight
Nows == {<<2024, 0, 15, 10>>, <<2024, 0, 31, 0>>}

Init == Mounted(LocationCounts, TimeZones)

Next ==
    \/ ActiveResolve(ExistingLists, Nows)
    \/ ActiveReject(Nows)
    \/ ProposedResolve(ProposedLists, Nows)
    \/ ProposedReject(Nows)

Spec == Init /\ [][Next]_vars

---------------------------------------------------------------------------
(* The calendar: the memo run at every day of NumAnchorYears years *)

NumAnchorYears == 2

DaysInMonth(y, m) == MonthStart(y, m + 1) - MonthStart(y, m)

AllAnchors ==
    {a \in (2023..(2022 + NumAnchorYears)) \X (0..11) \X (1..31) \X {0, 23} :
        a[3] <= DaysInMonth(a[1], a[2])}

Background == Circuit(TypeBroadband, 35, <<2023, 6, 1>>, Null)

InitMonths == Mounted({1}, TimeZones)

NextMonths ==
    \/ ActiveResolve({<<>>, <<Background>>}, AllAnchors)
    \/ ActiveReject(AllAnchors)
    \/ ProposedResolve({<<>>}, AllAnchors)
    \/ ProposedReject(AllAnchors)

SpecMonths == InitMonths /\ [][NextMonths]_vars

---------------------------------------------------------------------------
(* One probe circuit of every shape, beside a background circuit *)

ProbeTypes ==
    {TypeMPLS, TypeDIA, TypeBroadband, TypeLTE, TypeLte, TypeBroadHyphen, TypeDedicated,
     EmptyString}

ProbeCircuits ==
    {Circuit(t, 100, s, e) :
        t \in ProbeTypes,
        s \in {Null, <<2023, 6, 1>>, <<2024, 1, 15>>, <<2024, 9, 30>>},
        e \in {Null, <<2024, 3, 15>>, <<2026, 6, 30>>}}

ProbeExistingLists == {<<Background>>} \cup {<<x, Background>> : x \in ProbeCircuits}

ProbeProposedLists ==
    {<<>>,
     <<Circuit(TypeDedicated, 250, <<2024, 1, 15>>, Null), Background>>,
     <<Circuit(TypeLte, 60, Null, <<2026, 6, 30>>), Background>>,
     <<Circuit(TypeDIA, 100, <<2023, 6, 1>>, Null)>>}

InitItem == Mounted({1}, TimeZones)

NextItem ==
    \/ ActiveResolve(ProbeExistingLists, Nows)
    \/ ActiveReject(Nows)
    \/ ProposedResolve(ProbeProposedLists, Nows)
    \/ ProposedReject(Nows)

SpecItem == InitItem /\ [][NextItem]_vars

---------------------------------------------------------------------------
(* Contracts that start or end on the representative day of a slot *)

\* the calendar date, as a date-only string, of a time value in local time
CivilDate(t, offset) ==
    <<getFullYear(t, offset), getMonth(t, offset) + 1, getDate(t, offset)>>

RangeDays == {<<2024, 0, 15>>, <<2024, 0, 31>>, <<2023, 10, 30>>}
RangeNows == {<<d[1], d[2], d[3], h>> : d \in RangeDays, h \in {0, 5}}

\* the calendar date of slot i of an anchor day
SlotDate(d, i) == CivilDate(MonthDateAt(TimeOf(<<d[1], d[2], d[3], 0>>, 0), i, 0), 0)

OpenEnded ==
    {Circuit(TypeBroadband, 100, SlotDate(d, i), Null) :
        d \in RangeDays, i \in 0..(NumMonths - 1)}
Closed == {Circuit(TypeBroadband, 100, SlotDate(d, 2), SlotDate(d, 5)) : d \in RangeDays}

RangeExistingLists == {<<>>} \cup {<<x>> : x \in OpenEnded \cup Closed}
RangeProposedLists == {<<>>, <<Circuit(TypeLte, 60, SlotDate(<<2024, 0, 15>>, 2), SlotDate(<<2024, 0, 15>>, 5))>>}

InitRange == Mounted({1}, TimeZones)

NextRange ==
    \/ ActiveResolve(RangeExistingLists, RangeNows)
    \/ ActiveReject(RangeNows)
    \/ ProposedResolve(RangeProposedLists, RangeNows)
    \/ ProposedReject(RangeNows)

SpecRange == InitRange /\ [][NextRange]_vars

---------------------------------------------------------------------------
(* Properties *)

Ran == Len(data) > 0
BothSucceeded ==
    activeCircuitsQueries.status = "success" /\ proposedCircuitsQueries.status = "success"
ActiveData == activeCircuitsQueries.data[1]
ProposedData == proposedCircuitsQueries.data[1]
Slots == 1..NumMonths

\* the numeric fields of a bucket and the property names that spell them
ExistingFields ==
    {<<"existingMpls", existingMpls>>, <<"existingDia", existingDia>>,
     <<"existingBroadband", existingBroadband>>, <<"existingLte", existingLte>>}
ProposedFields ==
    {<<"proposedMpls", proposedMpls>>, <<"proposedDia", proposedDia>>,
     <<"proposedBroadband", proposedBroadband>>, <<"proposedLte", proposedLte>>}
FieldOf(chars) == (CHOOSE p \in ExistingFields \cup ProposedFields : p[2] = chars)[1]

\* list without its k-th element
Without(list, k) == SubSeq(list, 1, k - 1) \o SubSeq(list, k + 1, Len(list))

\* the series the same run yields when one circuit is left out of its collection
WithoutExisting(k) == Aggregate(Without(ActiveData, k), ProposedData, startDate, tz)
WithoutProposed(k) == Aggregate(ActiveData, Without(ProposedData, k), startDate, tz)

\* the normalized, set-prefixed type names one of the eight fields
Recognized(prefix, circuit) == (prefix \o StripNonLetters(circuit.type)) \in NumericFields

\* what leaving circuit x out changes: cost in field f of the buckets in J, nothing else
AddsExactly(rest, x, f, J) ==
    \A j \in Slots :
        data[j] = IF j \in J
                  THEN [rest[j] EXCEPT ![f] = @ + x.monthlycost]
                  ELSE rest[j]

Vocabulary == {TypeMPLS, TypeDIA, TypeBroadband, TypeLTE}
VocabularyName(type) ==
    CASE type = TypeMPLS -> NameMpls
      [] type = TypeDIA -> NameDia
      [] type = TypeBroadband -> NameBroadband
      [] type = TypeLTE -> NameLte

\* C1: an item of type "MPLS", "DIA", "Broadband" or "LTE" that is active at slot i
\* adds its monthly cost to the field of its set and type in bucket i
\* (existingMpls, existingDia, existingBroadband, existingLte, resp. proposed...).
C1_VocabularyFeedsFields ==
    Ran =>
        /\ \A k \in 1..Len(ActiveData) :
            LET x == ActiveData[k]
                rest == WithoutExisting(k)
            IN  x.type \in Vocabulary =>
                    LET f == FieldOf(ExistingPrefix \o VocabularyName(x.type))
                    IN  \A j \in Slots :
                            isCircuitActive(x, monthDates[j]) =>
                                data[j][f] = rest[j][f] + x.monthlycost
        /\ \A k \in 1..Len(ProposedData) :
            LET x == ProposedData[k]
                rest == WithoutProposed(k)
            IN  x.type \in Vocabulary =>
                    LET f == FieldOf(ProposedPrefix \o VocabularyName(x.type))
                    IN  \A j \in Slots :
                            isCircuitActive(x, monthDates[j]) =>
                                data[j][f] = rest[j][f] + x.monthlycost

\* C2: an item of a recognized type whose start date is the calendar date of slot 2
\* and whose end date is the calendar date of slot 5 adds its cost to buckets
\* 2, 3, 4 and 5 and to no other bucket, at every anchor instant.
C2_InclusiveOnBothBounds ==
    Ran =>
        /\ \A k \in 1..Len(ActiveData) :
            LET x == ActiveData[k]
            IN  (/\ Recognized(ExistingPrefix, x)
                 /\ x.contract_start_date = CivilDate(monthDates[3], tz)
                 /\ x.contract_end_date = CivilDate(monthDates[6], tz))
                => AddsExactly(WithoutExisting(k), x,
                               FieldOf(ExistingPrefix \o StripNonLetters(x.type)), 3..6)
        /\ \A k \in 1..Len(ProposedData) :
            LET x == ProposedData[k]
            IN  (/\ Recognized(ProposedPrefix, x)
                 /\ x.contract_start_date = CivilDate(monthDates[3], tz)
                 /\ x.contract_end_date = CivilDate(monthDates[6], tz))
                => AddsExactly(WithoutProposed(k), x,
                               FieldOf(ProposedPrefix \o StripNonLetters(x.type)), 3..6)

\* C3: month buckets exist only in states where both fetches have completed with a
\* result; while either is pending, or has failed without a result, the
\* aggregation has not run and the data series is empty.
C3_JoinBarrier ==
    /\ (Len(data) > 0 \/ Len(monthDates) > 0) =>
            /\ BothSucceeded
            /\ activeCircuitsQueries.data # Undefined
            /\ proposedCircuitsQueries.data # Undefined
    /\ ~BothSucceeded => data = <<>> /\ monthDates = <<>> /\ startDate = NoTime

\* one fetch has delivered circuits, the other has failed: no bucket
C3_Witness ==
    /\ activeCircuitsQueries.status = "success"
    /\ Len(ActiveData) = MaxItems
    /\ proposedCircuitsQueries.status = "error"
    /\ data = <<>>

\* C4: the representative date of slot i lies in the calendar month exactly i months
\* after the anchor's month, for every anchor date (days 29, 30, 31 included).
C4_SlotsAreConsecutiveMonths ==
    Ran =>
        \A i \in Slots :
            /\ getMonth(monthDates[i], tz) = (anchor[2] + i - 1) % 12
            /\ getFullYear(monthDates[i], tz) = anchor[1] + ((anchor[2] + i - 1) \div 12)

FourDigits(y) ==
    <<Digits[((y \div 1000) % 10) + 1], Digits[((y \div 100) % 10) + 1],
      Digits[((y \div 10) % 10) + 1], Digits[(y % 10) + 1]>>

\* C5: the label of entry i is the four-digit year iff the calendar month
\* (anchor month + i) is a January, and the empty string otherwise.
C5_YearLabelOnJanuary ==
    Ran =>
        \A i \in Slots :
            LET mi == anchor[2] + i - 1
            IN  data[i].month = IF mi % 12 = 0
                                THEN FourDigits(anchor[1] + (mi \div 12))
                                ELSE EmptyString

\* anchored on October 31st: slots 3, 15 and 27 are the Januaries
C5_Witness ==
    /\ Ran
    /\ anchor = <<2023, 9, 31, 23>>
    /\ data[4].month = <<"2", "0", "2", "4">>
    /\ data[16].month = <<"2", "0", "2", "5">>
    /\ data[2].month = EmptyString

\* C6: whenever the aggregation runs, its output has exactly 36 entries and the
\* representative date of entry i+1 is strictly later than that of entry i.
C6_ThirtySixAscending ==
    BothSucceeded =>
        /\ Len(data) = 36
        /\ Len(monthDates) = 36
        /\ \A i \in 1..35 : monthDates[i] < monthDates[i + 1]

\* both collections empty, anchored on January 31st of a leap year: slot 1 is March 2nd
C6_Witness ==
    /\ BothSucceeded
    /\ ActiveData = <<>> /\ ProposedData = <<>>
    /\ anchor = <<2024, 0, 31, 0>>
    /\ Len(data) = 36
    /\ CivilDate(monthDates[2], tz) = <<2024, 3, 2>>
    /\ CivilDate(monthDates[3], tz) = <<2024, 3, 31>>

\* C7: an item of a recognized type with no end date whose start date is the
\* representative date of slot i adds its cost exactly once to bucket i and to every
\* later bucket, and to no earlier bucket.
C7_OpenEndedStaysActive ==
    Ran =>
        /\ \A k \in 1..Len(ActiveData) :
            LET x == ActiveData[k]
            IN  \A i \in Slots :
                    (/\ Recognized(ExistingPrefix, x)
                     /\ x.contract_end_date = Null
                     /\ x.contract_start_date = CivilDate(monthDates[i], tz))
                    => AddsExactly(WithoutExisting(k), x,
                                   FieldOf(ExistingPrefix \o StripNonLetters(x.type)),
                                   i..NumMonths)
        /\ \A k \in 1..Len(ProposedData) :
            LET x == ProposedData[k]
            IN  \A i \in Slots :
                    (/\ Recognized(ProposedPrefix, x)
                     /\ x.contract_end_date = Null
                     /\ x.contract_start_date = CivilDate(monthDates[i], tz))
                    => AddsExactly(WithoutProposed(k), x,
                                   FieldOf(ProposedPrefix \o StripNonLetters(x.type)),
                                   i..NumMonths)

\* C8: an item whose set-prefixed, letters-only type names none of the eight fields
\* contributes 0 to every field of every bucket, active or not, and the other
\* items are accumulated as without it.
C8_UnrecognizedTypeDropped ==
    Ran =>
        /\ \A k \in 1..Len(ActiveData) :
            ~Recognized(ExistingPrefix, ActiveData[k]) => data = WithoutExisting(k)
        /\ \A k \in 1..Len(ProposedData) :
            ~Recognized(ProposedPrefix, ProposedData[k]) => data = WithoutProposed(k)

\* an active "Dedicated Internet Access" circuit ahead of the background circuit,
\* whose cost is in the bucket
C8_Witness ==
    /\ Ran
    /\ Len(ActiveData) = 2
    /\ ActiveData[1].type = TypeDedicated
    /\ isCircuitActive(ActiveData[1], monthDates[1])
    /\ ActiveData[2] = Background
    /\ data[1].existingBroadband = Background.monthlycost
    /\ \E k \in 1..Len(ProposedData) :
           ProposedData[k].type = TypeDedicated /\ isCircuitActive(ProposedData[k], monthDates[1])

\* C9: an item with no contract start date is never active: in either set, whatever
\* its type, cost and end date, it contributes 0 to every field of all 36 buckets.
C9_NoStartDateNeverCounted ==
    Ran =>
        /\ \A k \in 1..Len(ActiveData) :
            ActiveData[k].contract_start_date = Null => data = WithoutExisting(k)
        /\ \A k \in 1..Len(ProposedData) :
            ProposedData[k].contract_start_date = Null => data = WithoutProposed(k)

\* a Broadband circuit with an end date ahead and no start date, in the existing
\* set, and an Lte one in the proposed set
C9_Witness ==
    /\ Ran
    /\ Len(ActiveData) = 2
    /\ ActiveData[1].type = TypeBroadband
    /\ ActiveData[1].contract_start_date = Null
    /\ ActiveData[1].contract_end_date # Null
    /\ monthDates[1] <= ParseDate(ActiveData[1].contract_end_date)
    /\ data[1].existingBroadband = Background.monthlycost
    /\ \E k \in 1..Len(ProposedData) :
           ProposedData[k].contract_start_date = Null /\ data[1].proposedLte = 0

\* the item counts for field chars of the set with this prefix at instant md
Counts(x, prefix, chars, md) ==
    /\ x.contract_start_date # Null
    /\ ParseDate(x.contract_start_date) <= md
    /\ (x.contract_end_date = Null \/ md <= ParseDate(x.contract_end_date))
    /\ prefix \o StripNonLetters(x.type) = chars

RECURSIVE SumCosts(_, _, _, _, _)
SumCosts(list, k, prefix, chars, md) ==
    IF k = 0
    THEN 0
    ELSE SumCosts(list, k - 1, prefix, chars, md)
            + (IF Counts(list[k], prefix, chars, md) THEN list[k].monthlycost ELSE 0)

\* C10: in every bucket each of the eight fields equals the sum of the monthly
\* costs of the items of its own set that are active at the slot's date and whose
\* set-prefixed normalized type is the field's name; it is never negative.
C10_FieldsAreOwnSetSums ==
    Ran =>
        \A j \in 1..Len(data) :
            /\ \A f \in ExistingFields :
                /\ data[j][f[1]] =
                       SumCosts(ActiveData, Len(ActiveData), ExistingPrefix, f[2], monthDates[j])
                /\ data[j][f[1]] >= 0
            /\ \A f \in ProposedFields :
                /\ data[j][f[1]] =
                       SumCosts(ProposedData, Len(ProposedData), ProposedPrefix, f[2],
                                monthDates[j])
                /\ data[j][f[1]] >= 0

\* two existing circuits summed in one field while a proposed circuit feeds its own
C10_Witness ==
    /\ Ran
    /\ \E j \in Slots :
        /\ data[j].existingBroadband = 170
        /\ data[j].proposedBroadband = 80
        /\ data[j].proposedLte = 60
        /\ data[j].existingLte = 0

===========================================================================
